---------------------------- MODULE Spec2Model ----------------------------
(***************************************************************************)
(* The request loops of the project-api-metrics scripts: the cursor        *)
(* pagination of sunset.get_fork_data, pr_activity.get_pr_data,            *)
(* commits_people.get_data and the three get_repo_data drivers             *)
(* (repo_activity, inclusivity_check, keyword_by_repo), and the            *)
(* one-request-per-org loops of mystery_orgs and monitoring.               *)
(*                                                                         *)
(* The GitHub API is the environment: every request is answered by one of  *)
(* the responses of Responses.  One step of the model is one request with  *)
(* everything the script does with the answer, or one loop exit.           *)
(***************************************************************************)
EXTENDS Integers, Sequences, FiniteSets, TLC

VARIABLES
    script,         \* the script that is running
    org_list,       \* its work items: org_list / keyword_list / repo_list, in input order
    num_pages,      \* pr_activity: args.num_pages
    idx,            \* position in org_list of the work item being processed
    pc,             \* "loop" | "report" | "done" | "aborted", and after the
                    \* request loops "to_csv" | "scored" | "raised" | "no_file" | "end"
    has_next_page,  \* has_next_page (has_previous_page in pr_activity)
    after_cursor,   \* after_cursor (before_cursor in pr_activity)
    i,              \* pr_activity: the page iterator
    repo_info_df,   \* the accumulated records
    status,         \* get_fork_data / get_pr_data: status ("unbound" before it is assigned)
    num_forks,      \* get_fork_data: num_forks
    num_stars,      \* get_fork_data: num_stars
    all_rows,       \* sunset, mystery_orgs: the rows after the header row
    repo_list,      \* monitoring: the repo URLs collected
    served,         \* history: per work item, the responses the API gave, in order
    lastSent,       \* history: the AFTER argument of the current item's last request
    lastResp,       \* history: the answer to it
    failing,        \* environment: the work items whose every request fails
    screen,         \* inclusivity_check: the lines printed after the heading
    csv,            \* the output file: whether it exists, and the rows written to it
    person_dict,    \* create_person_dict: person_dict
    fail_person_dict, \* create_person_dict: fail_person_dict
    commit_email,   \* create_person_dict: commit_email ("unbound" before it is assigned)
    next_author,    \* create_person_dict: position of the loops over rows and authors
    csv_row_list    \* monitoring: the scores of the repos of repo_list

vars == <<script, org_list, num_pages, idx, pc, has_next_page, after_cursor, i,
          repo_info_df, status, num_forks, num_stars, all_rows, repo_list,
          served, lastSent, lastResp, failing, screen, csv,
          person_dict, fail_person_dict, commit_email, next_author, csv_row_list>>

\* the variables of create_person_dict
people == <<person_dict, fail_person_dict, commit_email, next_author>>

\* what the scripts do with the fetched data once the request loops are over
post == <<screen, csv, people, csv_row_list>>

-----------------------------------------------------------------------------
(* Bounds of the model *)

\* the most work items in one input file
MaxItems == 2
\* the most pages the API serves for one work item (and one more than the
\* further pages it reports in one run)
MaxPages == 3
\* the most records in one page
MaxPageLen == 2
\* the work items of a driver run in which the second item always fails
DriverItems == 3
\* the largest page cap given to pr_activity
MaxNumPages == 2
\* the largest totalCount / stargazerCount the API reports
MaxCount == 1
\* the most rows of a frame handed to the code that follows the request loop
MaxRows == 2
\* the most author entries, over all commits, handed to create_person_dict
MaxEntries == 3

-----------------------------------------------------------------------------
(* Values *)

None == "None"
Unbound == "unbound"

PaginatedDrivers == {"repo_activity", "inclusivity_check", "keyword_by_repo"}
SingleRepoScripts == {"pr_activity", "commits_people"}
Scripts == PaginatedDrivers \cup SingleRepoScripts \cup {"sunset", "mystery_orgs", "monitoring"}

\* the cursors the API may return: null, the empty string, two opaque strings
Cursors == {None, "", "c1", "c2"}

NoRequest == [quoted |-> FALSE, text |-> "-"]
NoResp == [kind |-> "-", n |-> 0, more |-> FALSE, cursor |-> None, total |-> 0, stars |-> 0]

\* "AFTER" as make_query writes it into the query text: the cursor in double
\* quotes when it is truthy, the bare word null otherwise
make_query(cursor) ==
    IF cursor \in {None, ""}
    THEN [quoted |-> FALSE, text |-> "null"]
    ELSE [quoted |-> TRUE, text |-> cursor]

Item == idx
Processing == pc = "loop" /\ idx <= Len(org_list)

\* the records of page p of a work item, in response order
PageRecs(item, p, n) == [k \in 1..n |-> [item |-> item, page |-> p, k |-> k]]

-----------------------------------------------------------------------------
(* The environment: what the API may answer *)

\* what the history keeps of a response
Summary(resp) == [kind |-> resp.kind, n |-> resp.n, more |-> resp.more]

\* a request that fails: "transport" (requests.post or json.loads raises),
\* "nodata" (the response lacks the record list), "partial" (the response
\* carries a record list of n records and lacks a key that is read after it)
Failure(kind, n) ==
    [kind |-> kind, n |-> n, more |-> FALSE, cursor |-> None, total |-> 0, stars |-> 0]

Failures ==
    {Failure("transport", 0), Failure("nodata", 0)}
        \cup {Failure("partial", n) : n \in 0..MaxPageLen}

\* the responses of the run so far that reported a further page
MoreServed == {ip \in (DOMAIN served) \X (1..MaxPages) :
                  ip[2] <= Len(served[ip[1]]) /\ served[ip[1]][ip[2]].more}

\* the API reports a further page fewer than MaxPages times in one run, so
\* that no work item is served more than MaxPages pages
MoreChoices == IF Cardinality(MoreServed) + 1 < MaxPages THEN BOOLEAN ELSE {FALSE}

\* totalCount and stargazerCount are read by sunset alone
Counts == IF script = "sunset" THEN 0..MaxCount ELSE {0}

PageResponses(item) ==
    IF item \in failing THEN Failures
    ELSE
    {[kind |-> "ok", n |-> n, more |-> m, cursor |-> c, total |-> t, stars |-> 0] :
        n \in 0..MaxPageLen, m \in MoreChoices, c \in Cursors, t \in Counts}
        \cup Failures

\* mystery_orgs and monitoring ask once per org and read no pageInfo
SingleResponses ==
    {[kind |-> "ok", n |-> n, more |-> FALSE, cursor |-> None, total |-> 0, stars |-> 0] :
        n \in 0..MaxPageLen}
        \cup Failures

\* get_criticality's results: a numeric dependents count, a string that is
\* not numeric, or (None, None)
CritOutcomes == {"numeric", "text", "none"}

-----------------------------------------------------------------------------
(* Initial states *)

Line(k, http) == [name |-> k, http |-> http]

OrgLists(s) ==
    IF s \in SingleRepoScripts
    THEN {<<Line(1, FALSE)>>}
    ELSE IF s = "monitoring"
    THEN UNION {{l \in [1..n -> {Line(k, h) : k \in 1..n, h \in BOOLEAN}] :
                    \A k \in 1..n : l[k].name = k} : n \in 1..MaxItems}
    ELSE {[k \in 1..n |-> Line(k, FALSE)] : n \in 1..MaxItems}

NumPagesChoices(s) == IF s = "pr_activity" THEN (-1)..MaxNumPages ELSE {0}

\* no file has been written
NoFile == [written |-> FALSE, rows |-> <<>>]

\* the logins and the commit emails of the authors
Logins == {"u1", "u2"}
Emails == {"e1", "e2"}

\* collections.defaultdict(dict): a key that was never filled has the empty
\* dict, which is false as a condition; here an entry without commits
NoPerson == [commits |-> 0, additions |-> 0, deletions |-> 0, email |-> <<>>]
NoFailPerson == [commits |-> 0, additions |-> 0, deletions |-> 0]

\* create_person_dict before its first loop
PeopleStart ==
    /\ person_dict = [login \in Logins |-> NoPerson]
    /\ fail_person_dict = [email \in Emails |-> NoFailPerson]
    /\ commit_email = Unbound
    /\ next_author = 1

\* the state every script starts its first work item in
Start ==
    /\ idx = 1
    /\ pc = "loop"
    /\ has_next_page = TRUE
    /\ after_cursor = None
    /\ i = 1
    /\ repo_info_df = <<>>
    /\ status = Unbound
    /\ num_forks = Unbound
    /\ num_stars = Unbound
    /\ all_rows = <<>>
    /\ repo_list = <<>>
    /\ served = [k \in 1..Len(org_list) |-> <<>>]
    /\ lastSent = NoRequest
    /\ lastResp = NoResp
    /\ screen = <<>>
    /\ csv = NoFile
    /\ csv_row_list = <<>>
    /\ PeopleStart

Init ==
    /\ script \in Scripts
    /\ org_list \in OrgLists(script)
    /\ num_pages \in NumPagesChoices(script)
    /\ failing = {}
    /\ Start

\* a run of a script that loops over paginated work items, given [A, B, C]
\* where every request for B fails
DriverInit ==
    /\ script \in PaginatedDrivers \cup {"sunset"}
    /\ org_list = [k \in 1..DriverItems |-> Line(k, FALSE)]
    /\ num_pages = 0
    /\ failing = {2}
    /\ Start

-----------------------------------------------------------------------------
(* The pieces the pagination loops share *)

\* a slip in the concatenation: the new page before the accumulated records
concat_prepend(df, df_temp) == df_temp \o df

\* pd.concat([repo_info_df, df_temp])
concat(df, df_temp) == df \o df_temp

\* the records of a response, as the next page of the current item
df_temp(resp) == PageRecs(Item, Len(served[Item]) + 1, resp.n)

\* repo_info_df after the try body: the record list is read and concatenated
\* before pageInfo is read, so a "partial" response is accumulated too
try_df(resp) ==
    IF resp.kind \in {"ok", "partial"} THEN concat(repo_info_df, df_temp(resp))
    ELSE repo_info_df

\* a slip in the except clause: the loop flag is left as it was
except_keeps_flag == has_next_page

\* the except clause: has_next_page = False
except_has_next_page == FALSE

\* a slip: a page without records is taken for the last one
try_stops_on_empty_page(resp) == resp.kind = "ok" /\ resp.more /\ resp.n > 0

\* has_next_page after one pass of the loop body
try_has_next_page(resp) == IF resp.kind = "ok" THEN resp.more ELSE except_has_next_page

\* after_cursor after one pass of the loop body
try_after_cursor(resp) == IF resp.kind = "ok" THEN resp.cursor ELSE after_cursor

\* a slip: the loop also goes on while the API has returned a cursor
while_cursor_or_flag == has_next_page \/ after_cursor \notin {None, ""}

\* while has_next_page:
while_has_next_page == has_next_page

\* what a request and its answer leave in the history
Exchange(resp) ==
    /\ served' = [served EXCEPT ![Item] = Append(@, Summary(resp))]
    /\ lastSent' = make_query(after_cursor)
    /\ lastResp' = resp

\* a slip: the cursor is not reset when the next work item is taken
for_next_item_keeps_cursor ==
    /\ idx' = idx + 1
    /\ has_next_page' = TRUE
    /\ after_cursor' = after_cursor
    /\ lastSent' = NoRequest
    /\ lastResp' = NoResp

\* the for statement takes the next work item: has_next_page = True,
\* after_cursor = None
for_next_item ==
    /\ idx' = idx + 1
    /\ has_next_page' = TRUE
    /\ after_cursor' = None
    /\ lastSent' = NoRequest
    /\ lastResp' = NoResp

-----------------------------------------------------------------------------
(* repo_activity, inclusivity_check, keyword_by_repo: get_repo_data *)

\* one pass of the while loop for the current org or keyword
get_repo_data_page ==
    /\ script \in PaginatedDrivers
    /\ Processing
    /\ while_has_next_page
    /\ \E resp \in PageResponses(Item) :
        /\ Exchange(resp)
        /\ repo_info_df' = try_df(resp)
        /\ has_next_page' = try_has_next_page(resp)
        /\ after_cursor' = try_after_cursor(resp)
    /\ UNCHANGED <<post, failing, script, org_list, num_pages, idx, pc, i, status, num_forks,
                   num_stars, all_rows, repo_list>>

\* the while loop ends: the next org or keyword, or return repo_info_df
get_repo_data_next ==
    /\ script \in PaginatedDrivers
    /\ Processing
    /\ ~while_has_next_page
    /\ IF idx < Len(org_list)
       THEN for_next_item /\ pc' = "loop"
       ELSE pc' = "done" /\ UNCHANGED <<idx, has_next_page, after_cursor, lastSent, lastResp>>
    /\ UNCHANGED <<post, failing, script, org_list, num_pages, i, repo_info_df, status, num_forks,
                   num_stars, all_rows, repo_list, served>>

-----------------------------------------------------------------------------
(* commits_people: get_data, which has no try statement *)

\* one pass of the while loop; an exception leaves get_data and ends the script
get_data_page ==
    /\ script = "commits_people"
    /\ Processing
    /\ while_has_next_page
    /\ \E resp \in PageResponses(Item) :
        /\ Exchange(resp)
        /\ repo_info_df' = try_df(resp)
        /\ IF resp.kind = "ok"
           THEN /\ has_next_page' = resp.more
                /\ after_cursor' = resp.cursor
                /\ pc' = pc
           ELSE /\ pc' = "aborted"
                /\ UNCHANGED <<has_next_page, after_cursor>>
    /\ UNCHANGED <<post, failing, script, org_list, num_pages, idx, i, status, num_forks,
                   num_stars, all_rows, repo_list>>

\* return repo_info_df
get_data_return ==
    /\ script = "commits_people"
    /\ Processing
    /\ ~while_has_next_page
    /\ pc' = "done"
    /\ UNCHANGED <<post, failing, script, org_list, num_pages, idx, has_next_page, after_cursor, i,
                   repo_info_df, status, num_forks, num_stars, all_rows, repo_list,
                   served, lastSent, lastResp>>

-----------------------------------------------------------------------------
(* pr_activity: get_pr_data *)

\* a slip: the cap compared with < instead of <=
while_get_pr_data_short == has_next_page /\ i < num_pages

\* while has_previous_page and i <= num_pages:
while_get_pr_data == has_next_page /\ i <= num_pages

\* one pass of the while loop
get_pr_data_page ==
    /\ script = "pr_activity"
    /\ Processing
    /\ while_get_pr_data
    /\ i' = i + 1
    /\ \E resp \in PageResponses(Item) :
        /\ Exchange(resp)
        /\ repo_info_df' = try_df(resp)
        /\ has_next_page' = try_has_next_page(resp)
        /\ after_cursor' = try_after_cursor(resp)
        /\ status' = IF resp.kind = "ok" THEN "OK" ELSE "Error"
    /\ UNCHANGED <<post, failing, script, org_list, num_pages, idx, pc, num_forks, num_stars,
                   all_rows, repo_list>>

\* return repo_info_df, status: status is assigned in the loop body only
get_pr_data_return ==
    /\ script = "pr_activity"
    /\ Processing
    /\ ~while_get_pr_data
    /\ pc' = IF status = Unbound THEN "aborted" ELSE "done"
    /\ UNCHANGED <<post, failing, script, org_list, num_pages, idx, has_next_page, after_cursor, i,
                   repo_info_df, status, num_forks, num_stars, all_rows, repo_list,
                   served, lastSent, lastResp>>

-----------------------------------------------------------------------------
(* sunset: get_fork_data and the loop over repo_list *)

\* a slip in the except clause: num_forks keeps the value of the last page
except_keeps_num_forks == num_forks

\* the except clause: num_forks = None
except_num_forks == None

\* one pass of get_fork_data's while loop
get_fork_data_page ==
    /\ script = "sunset"
    /\ Processing
    /\ while_has_next_page
    /\ \E resp \in PageResponses(Item) :
        /\ Exchange(resp)
        /\ repo_info_df' = try_df(resp)
        /\ has_next_page' = try_has_next_page(resp)
        /\ after_cursor' = try_after_cursor(resp)
        /\ num_forks' = IF resp.kind = "ok" THEN resp.total ELSE except_num_forks
        /\ num_stars' = IF resp.kind = "ok" THEN resp.stars ELSE None
        /\ status' = IF resp.kind = "ok" THEN "OK" ELSE "Error"
    /\ UNCHANGED <<post, failing, script, org_list, num_pages, idx, pc, i, all_rows, repo_list>>

\* return repo_info_df, num_forks, num_stars, status
get_fork_data_return ==
    /\ script = "sunset"
    /\ Processing
    /\ ~while_has_next_page
    /\ pc' = "report"
    /\ UNCHANGED <<post, failing, script, org_list, num_pages, idx, has_next_page, after_cursor, i,
                   repo_info_df, status, num_forks, num_stars, all_rows, repo_list,
                   served, lastSent, lastResp>>

\* the fork's updatedAt, as a day number: the second fork of a page is the
\* recently updated one
updatedAt(fork) == fork.k

\* recently_updated, on the same scale
recently_updated == 1

NoFork == [item |-> 0, page |-> 0, k |-> 0]

\* a slip: the row of a repo that could not be processed also has the two
\* counts
error_row_with_counts ==
    [org |-> Item, width |-> 5, status |-> "Error", stars |-> 0, forks |-> 0,
     dependents |-> "", score |-> "", fork |-> NoFork]

\* row = [org_name, repo_name, status]
error_row == [org |-> Item, width |-> 3, status |-> "Error", stars |-> 0, forks |-> 0,
              dependents |-> "", score |-> "", fork |-> NoFork]

\* a row of a repo whose status is "OK": 7 fields, or 15 with the fork's
repo_row(width, dependents, score, fork) ==
    [org |-> Item, width |-> width, status |-> status, stars |-> num_stars,
     forks |-> num_forks, dependents |-> dependents, score |-> score, fork |-> fork]

\* a slip: the forks are not selected by their date
all_forks_df == repo_info_df

\* repo_info_df.loc[repo_info_df['updatedAt'] > recently_updated]
recent_forks_df == SelectSeq(repo_info_df, LAMBDA f : updatedAt(f) > recently_updated)

\* the rows the loop body appends for the current repo once get_fork_data has
\* returned, given what get_criticality returned
repo_rows(crit) ==
    IF status # "OK" THEN <<error_row>>
    ELSE IF crit = "none"
         \* None.isnumeric() raises: the outer except clause
         THEN <<error_row>>
    ELSE LET dependents == IF crit = "numeric" THEN "12" ELSE "Error"
             score == IF crit = "numeric" THEN "0.5" ELSE "Error"
         IN  IF num_forks > 0
             THEN IF repo_info_df = <<>>
                  \* a frame without rows has no 'updatedAt' column: the outer
                  \* except clause
                  THEN <<error_row>>
                  ELSE IF Len(recent_forks_df) = 0
                       THEN <<repo_row(7, dependents, score, NoFork)>>
                       ELSE [k \in 1..Len(recent_forks_df) |->
                                repo_row(15, dependents, score, recent_forks_df[k])]
             ELSE <<repo_row(15, dependents, score, NoFork)>>

\* the rest of the loop body for the current repo, then the next repo
sunset_report ==
    /\ script = "sunset"
    /\ pc = "report"
    /\ \E crit \in CritOutcomes :
        /\ all_rows' = all_rows \o repo_rows(crit)
        /\ IF idx < Len(org_list)
           THEN /\ for_next_item
                /\ pc' = "loop"
                /\ repo_info_df' = <<>>
                /\ status' = Unbound
                /\ num_forks' = Unbound
                /\ num_stars' = Unbound
           ELSE /\ pc' = "done"
                /\ status' = repo_rows(crit)[1].status
                /\ UNCHANGED <<idx, has_next_page, after_cursor, lastSent, lastResp,
                               repo_info_df, num_forks, num_stars>>
    /\ UNCHANGED <<post, failing, script, org_list, num_pages, i, repo_list, served>>

-----------------------------------------------------------------------------
(* mystery_orgs: get_org_data; monitoring: the loop over org_list *)

\* a slip: the row is appended as far as it was filled when the response
\* turns out to be malformed
try_all_rows_partial(resp) ==
    IF resp.kind \in {"ok", "partial"}
    THEN Append(all_rows, <<Item>> \o df_temp(resp))
    ELSE all_rows

\* all_rows after the try statement: all_rows.append(row) is the last
\* statement of the try body
try_all_rows(resp) ==
    IF resp.kind = "ok"
    THEN Append(all_rows, <<Item>> \o df_temp(resp))
    ELSE all_rows

\* the loop body for one org: the request is outside the try statement, the
\* row is appended only when the whole response was read
get_org_data_org ==
    /\ script = "mystery_orgs"
    /\ Processing
    /\ \E resp \in SingleResponses :
        /\ served' = [served EXCEPT ![Item] = Append(@, Summary(resp))]
        /\ lastSent' = NoRequest
        /\ lastResp' = resp
        /\ IF resp.kind = "transport"
           THEN pc' = "aborted" /\ UNCHANGED <<idx, all_rows>>
           ELSE /\ all_rows' = try_all_rows(resp)
                /\ idx' = idx + 1
                /\ pc' = IF idx < Len(org_list) THEN "loop" ELSE "write"
    /\ UNCHANGED <<post, failing, script, org_list, num_pages, has_next_page, after_cursor, i,
                   repo_info_df, status, num_forks, num_stars, repo_list>>

\* the header row of all_rows, written as a row of org 0
header_row == <<0>>

\* what create_file returns when open() succeeds: return file, file_path,
\* a tuple of the file object and the path
create_file == [type |-> "tuple", file |-> [type |-> "file"], file_path |-> "file_path"]

\* with file: a file object can be entered, a tuple cannot (the with
\* statement raises); file is whatever was assigned to it
with_file(file) == file.type = "file"

\* the write step of get_org_data: file = create_file("mystery_orgs") may
\* raise, and leaves an empty file when it does not; the rows are written
\* when the with statement can be entered; the except clause prints a message
get_org_data_write ==
    /\ script = "mystery_orgs"
    /\ pc = "write"
    /\ \E opens \in BOOLEAN :
        csv' = IF ~opens THEN csv
               ELSE LET file == create_file
                    IN  [written |-> TRUE,
                         rows |-> IF with_file(file) THEN <<header_row>> \o all_rows
                                  ELSE <<>>]
    /\ pc' = "done"
    /\ UNCHANGED <<csv_row_list, people, screen, failing, script, org_list, num_pages, idx,
                   has_next_page, after_cursor, i, repo_info_df, status, num_forks,
                   num_stars, all_rows, repo_list, served, lastSent, lastResp>>

\* a slip: every line is taken for the name of an org
startswith_never(line) == FALSE

\* org_name.startswith('http')
startswith_http(line) == line.http

\* the loop body for one line of monitoring.txt
monitoring_org ==
    /\ script = "monitoring"
    /\ Processing
    /\ IF startswith_http(org_list[idx])
       THEN /\ repo_list' = Append(repo_list, org_list[idx])
            /\ idx' = idx + 1
            /\ pc' = IF idx < Len(org_list) THEN "loop" ELSE "done"
            /\ UNCHANGED <<served, lastSent, lastResp>>
       ELSE \E resp \in SingleResponses :
            /\ served' = [served EXCEPT ![Item] = Append(@, Summary(resp))]
            /\ lastSent' = NoRequest
            /\ lastResp' = resp
            /\ IF resp.kind = "transport"
               THEN pc' = "aborted" /\ UNCHANGED <<idx, repo_list>>
               ELSE /\ repo_list' = IF resp.kind \in {"ok", "partial"}
                                    THEN repo_list \o df_temp(resp)
                                    ELSE repo_list
                    /\ idx' = idx + 1
                    /\ pc' = IF idx < Len(org_list) THEN "loop" ELSE "done"
    /\ UNCHANGED <<post, failing, script, org_list, num_pages, has_next_page, after_cursor, i,
                   repo_info_df, status, num_forks, num_stars, all_rows>>

-----------------------------------------------------------------------------
(* inclusivity_check: the frame is reformatted, written and printed *)

\* the nodes of the query, as rows of the frame: defaultBranchRef and
\* codeOfConduct are null or an object, written here as None or the object's
\* name / url
RepoNodes(j) ==
    {[nameWithOwner |-> j, defaultBranchRef |-> b, codeOfConduct |-> c,
      isPrivate |-> pr, isFork |-> fk, isEmpty |-> em, isArchived |-> ar] :
        b \in {None, "master", "main"}, c \in {None, "coc_url"},
        pr \in BOOLEAN, fk \in BOOLEAN, em \in BOOLEAN, ar \in BOOLEAN}

\* the frames get_repo_data may have returned
RepoFrames ==
    UNION {{f \in [1..n -> UNION {RepoNodes(j) : j \in 1..n}] :
                \A j \in 1..n : f[j].nameWithOwner = j} : n \in 0..MaxRows}

\* expand_name: 'Not Found' for null, the object's name otherwise
expand_name(nested_name) == IF nested_name = None THEN "Not Found" ELSE nested_name

\* expand_coc: 'Not Found' for null, the object's url otherwise
expand_coc(coc) == IF coc = None THEN "Not Found" ELSE coc

\* a row after expand_name_df, expand_coc and drop(columns=...)
reformat(row) ==
    [nameWithOwner |-> row.nameWithOwner,
     defaultBranch |-> expand_name(row.defaultBranchRef),
     codeOfConduct_url |-> expand_coc(row.codeOfConduct),
     isPrivate |-> row.isPrivate, isFork |-> row.isFork,
     isEmpty |-> row.isEmpty, isArchived |-> row.isArchived]

\* a slip: both conditions are required for a row to be printed
prints_and(row) ==
    /\ ~(row.isPrivate \/ row.isFork \/ row.isEmpty \/ row.isArchived)
    /\ row.defaultBranch = "master" /\ row.codeOfConduct_url = "Not Found"

\* the if / elif of the print loop: the row is printed
prints(row) ==
    IF row.isPrivate \/ row.isFork \/ row.isEmpty \/ row.isArchived THEN FALSE
    ELSE row.defaultBranch = "master" \/ row.codeOfConduct_url = "Not Found"

InclusivityInit ==
    /\ script = "inclusivity_check"
    /\ org_list = <<Line(1, FALSE)>>
    /\ num_pages = 0
    /\ failing = {}
    /\ idx = 1
    /\ pc = "reformat"
    /\ has_next_page = FALSE
    /\ after_cursor = None
    /\ i = 1
    /\ repo_info_df \in RepoFrames
    /\ status = Unbound
    /\ num_forks = Unbound
    /\ num_stars = Unbound
    /\ all_rows = <<>>
    /\ repo_list = <<>>
    /\ served = [k \in 1..Len(org_list) |-> <<>>]
    /\ lastSent = NoRequest
    /\ lastResp = NoResp
    /\ screen = <<>>
    /\ csv = NoFile
    /\ csv_row_list = <<>>
    /\ PeopleStart

\* the columns are reformatted and the frame is written with to_csv, which
\* may fail; a frame without rows has no 'defaultBranchRef' column and the
\* script ends with a KeyError
inclusivity_reformat ==
    /\ script = "inclusivity_check"
    /\ pc = "reformat"
    /\ IF repo_info_df = <<>>
       THEN pc' = "aborted" /\ UNCHANGED <<repo_info_df, csv>>
       ELSE /\ repo_info_df' = [j \in 1..Len(repo_info_df) |-> reformat(repo_info_df[j])]
            /\ \E written \in BOOLEAN :
                csv' = IF written THEN [written |-> TRUE, rows |-> repo_info_df'] ELSE csv
            /\ pc' = "print"
    /\ UNCHANGED <<csv_row_list, people, screen, failing, script, org_list, num_pages, idx, has_next_page,
                   after_cursor, i, status, num_forks, num_stars, all_rows, repo_list,
                   served, lastSent, lastResp>>

\* for rows in repo_info_df.iterrows(): print(repo, branch, coc)
inclusivity_print ==
    /\ script = "inclusivity_check"
    /\ pc = "print"
    /\ screen' = screen \o
            [j \in 1..Len(SelectSeq(repo_info_df, prints)) |->
                LET row == SelectSeq(repo_info_df, prints)[j]
                IN  <<row.nameWithOwner, row.defaultBranch, row.codeOfConduct_url>>]
    /\ pc' = "done"
    /\ UNCHANGED <<csv_row_list, people, csv, failing, script, org_list, num_pages, idx, has_next_page,
                   after_cursor, i, repo_info_df, status, num_forks, num_stars, all_rows,
                   repo_list, served, lastSent, lastResp>>

InclusivityNext == inclusivity_reformat \/ inclusivity_print

InclusivitySpec == InclusivityInit /\ [][InclusivityNext]_vars

-----------------------------------------------------------------------------
(* commits_people: create_person_dict *)

\* y['user']['email'] of the two users: one without a public email, one with
login_email(login) == IF login = "u1" THEN "" ELSE "e2"

\* the entries of data['author'] of all rows, in the order of the two loops:
\* commit is the row they belong to, user is y['user'] (None or the login),
\* email is y['email']
Authors(commit) ==
    {[commit |-> commit, user |-> u, email |-> e] : u \in {None} \cup Logins, e \in Emails}

\* the frames read from the pickle file: n author entries in commits 1, 2, ..
\* with at least one author each
AuthorFrames ==
    UNION {{f \in [1..n -> UNION {Authors(c) : c \in 1..n}] :
                /\ f[1].commit = 1
                /\ \A j \in 2..n : f[j].commit - f[j - 1].commit \in {0, 1}} :
            n \in 1..MaxEntries}

\* data['additions'] and data['deletions'] of a row
additions(commit) == commit
deletions(commit) == 1

PersonInit ==
    /\ script = "commits_people"
    /\ org_list = <<Line(1, FALSE)>>
    /\ num_pages = 0
    /\ failing = {}
    /\ idx = 1
    /\ pc = "first_pass"
    /\ has_next_page = FALSE
    /\ after_cursor = None
    /\ i = 1
    /\ repo_info_df \in AuthorFrames
    /\ status = Unbound
    /\ num_forks = Unbound
    /\ num_stars = Unbound
    /\ all_rows = <<>>
    /\ repo_list = <<>>
    /\ served = [k \in 1..Len(org_list) |-> <<>>]
    /\ lastSent = NoRequest
    /\ lastResp = NoResp
    /\ screen = <<>>
    /\ csv = NoFile
    /\ csv_row_list = <<>>
    /\ PeopleStart

\* the try body for an author y with a user: the person's entry is counted
\* up, or filled when it is new
try_person(y) ==
    LET login == y.user
        old == person_dict[login]
    IN  IF old.commits > 0
        THEN [commits |-> old.commits + 1,
              additions |-> old.additions + additions(y.commit),
              deletions |-> old.deletions + deletions(y.commit),
              email |-> IF \E j \in 1..Len(old.email) : old.email[j] = y.email
                        THEN old.email ELSE Append(old.email, y.email)]
        ELSE [commits |-> 1,
              additions |-> additions(y.commit),
              deletions |-> deletions(y.commit),
              email |-> IF login_email(login) = "" \/ y.email = login_email(login)
                        THEN <<y.email>> ELSE <<y.email, login_email(login)>>]

\* the except clause: the entry of fail_person_dict under key is counted up,
\* or filled when it is new
except_fail_person(key, y) ==
    LET old == fail_person_dict[key]
    IN  [commits |-> old.commits + 1,
         additions |-> old.additions + additions(y.commit),
         deletions |-> old.deletions + deletions(y.commit)]

\* one pass of the inner loop, for y in data['author']: y['user']['login']
\* raises when the user is null, before commit_email is assigned, and the
\* except clause uses commit_email as the previous passes left it; when it
\* was never assigned the except clause raises and the script ends
create_person_dict_author ==
    /\ script = "commits_people"
    /\ pc = "first_pass"
    /\ LET y == repo_info_df[next_author]
       IN  IF y.user # None
           THEN /\ commit_email' = y.email
                /\ person_dict' = [person_dict EXCEPT ![y.user] = try_person(y)]
                /\ next_author' = next_author + 1
                /\ pc' = IF next_author < Len(repo_info_df) THEN "first_pass" ELSE "merge"
                /\ UNCHANGED fail_person_dict
           ELSE IF commit_email = Unbound
           THEN /\ pc' = "aborted"
                /\ UNCHANGED people
           ELSE /\ fail_person_dict' =
                    [fail_person_dict EXCEPT ![commit_email] = except_fail_person(commit_email, y)]
                /\ next_author' = next_author + 1
                /\ pc' = IF next_author < Len(repo_info_df) THEN "first_pass" ELSE "merge"
                /\ UNCHANGED <<person_dict, commit_email>>
    /\ UNCHANGED <<csv_row_list, screen, csv, failing, script, org_list, num_pages, idx, has_next_page,
                   after_cursor, i, repo_info_df, status, num_forks, num_stars, all_rows,
                   repo_list, served, lastSent, lastResp>>

\* the sum of field over the entries of fail_person_dict whose email is in
\* the person's email list
RECURSIVE merged(_, _, _)
merged(emails, person, field) ==
    IF emails = {} THEN 0
    ELSE LET f_key == CHOOSE e \in emails : TRUE
             f_value == fail_person_dict[f_key]
         IN  (IF f_value.commits > 0
                  /\ \E j \in 1..Len(person.email) : person.email[j] = f_key
              THEN f_value[field] ELSE 0)
             + merged(emails \ {f_key}, person, field)

\* the second loop: every entry of fail_person_dict is added to every person
\* whose email list holds its key
create_person_dict_merge ==
    /\ script = "commits_people"
    /\ pc = "merge"
    /\ person_dict' =
            [login \in Logins |->
                LET value == person_dict[login]
                IN  IF value.commits = 0 THEN value
                    ELSE [commits |-> value.commits + merged(Emails, value, "commits"),
                          additions |-> value.additions + merged(Emails, value, "additions"),
                          deletions |-> value.deletions + merged(Emails, value, "deletions"),
                          email |-> value.email]]
    /\ pc' = "done"
    /\ UNCHANGED <<fail_person_dict, commit_email, next_author, csv_row_list, screen, csv, failing,
                   script, org_list, num_pages, idx, has_next_page, after_cursor, i,
                   repo_info_df, status, num_forks, num_stars, all_rows, repo_list,
                   served, lastSent, lastResp>>

PersonNext == create_person_dict_author \/ create_person_dict_merge

PersonSpec == PersonInit /\ [][PersonNext]_vars

-----------------------------------------------------------------------------
(* pr_activity, repo_activity and monitoring after their request loops *)

\* repo_info_df['author'], repo_info_df["nameWithOwner"]: a frame that was
\* concatenated from no record has no column at all
has_column(df) == df # <<>>

\* pr_activity after get_pr_data has returned: the author and comments
\* columns are expanded, a KeyError when the frame has no such column; the
\* rows and their order are kept (the columns of a row are not modelled)
pr_activity_flatten ==
    /\ script = "pr_activity"
    /\ pc = "done"
    /\ pc' = IF has_column(repo_info_df) THEN "to_csv" ELSE "raised"
    /\ UNCHANGED <<post, failing, script, org_list, num_pages, idx, has_next_page,
                   after_cursor, i, repo_info_df, status, num_forks, num_stars,
                   all_rows, repo_list, served, lastSent, lastResp>>

\* repo_activity after get_repo_data has returned: the org, license, branch
\* and last commit columns are derived, a KeyError when the frame has no
\* 'nameWithOwner' column; the rows and their order are kept
repo_activity_flatten ==
    /\ script = "repo_activity"
    /\ pc = "done"
    /\ pc' = IF has_column(repo_info_df) THEN "to_csv" ELSE "raised"
    /\ UNCHANGED <<post, failing, script, org_list, num_pages, idx, has_next_page,
                   after_cursor, i, repo_info_df, status, num_forks, num_stars,
                   all_rows, repo_list, served, lastSent, lastResp>>

\* the write step of pr_activity and repo_activity: create_file and to_csv
\* are inside a try whose except clause prints a message
to_csv ==
    /\ script \in {"pr_activity", "repo_activity"}
    /\ pc = "to_csv"
    /\ \E opens \in BOOLEAN :
        csv' = IF opens THEN [written |-> TRUE, rows |-> repo_info_df] ELSE csv
    /\ pc' = "end"
    /\ UNCHANGED <<csv_row_list, people, screen, failing, script, org_list, num_pages,
                   idx, has_next_page, after_cursor, i, repo_info_df, status, num_forks,
                   num_stars, all_rows, repo_list, served, lastSent, lastResp>>

\* the rows of the repos from position k on for which criticality_score
\* printed a JSON document
RECURSIVE scored_rows(_, _, _)
scored_rows(list, scored, k) ==
    IF k > Len(list) THEN <<>>
    ELSE (IF scored[k] THEN <<[repo |-> list[k]]>> ELSE <<>>)
            \o scored_rows(list, scored, k + 1)

\* monitoring's loop over repo_list: criticality_score is run for each repo;
\* stderr goes to stdout, so err is None and the output is parsed whatever
\* the tool did; json.loads raises on anything that is not one JSON document
\* and the except clause prints a message
monitoring_score ==
    /\ script = "monitoring"
    /\ pc = "done"
    /\ \E scored \in [DOMAIN repo_list -> BOOLEAN] :
        csv_row_list' = scored_rows(repo_list, scored, 1)
    /\ pc' = "scored"
    /\ UNCHANGED <<people, screen, csv, failing, script, org_list, num_pages, idx,
                   has_next_page, after_cursor, i, repo_info_df, status, num_forks,
                   num_stars, all_rows, repo_list, served, lastSent, lastResp>>

\* keys = csv_row_list[0].keys()
keys(rows) == DOMAIN rows[1]

\* the write step of monitoring, outside any try: csv_row_list[0] is an
\* IndexError when no repo was scored; create_file may raise; the header and
\* the rows are written
monitoring_write ==
    /\ script = "monitoring"
    /\ pc = "scored"
    /\ IF csv_row_list = <<>>
       THEN pc' = "raised" /\ UNCHANGED csv
       ELSE \E opens \in BOOLEAN :
            IF opens
            THEN /\ csv' = [written |-> TRUE,
                            rows |-> <<keys(csv_row_list)>> \o csv_row_list]
                 /\ pc' = "end"
            ELSE pc' = "no_file" /\ UNCHANGED csv
    /\ UNCHANGED <<csv_row_list, people, screen, failing, script, org_list, num_pages,
                   idx, has_next_page, after_cursor, i, repo_info_df, status, num_forks,
                   num_stars, all_rows, repo_list, served, lastSent, lastResp>>

-----------------------------------------------------------------------------

Next ==
    \/ get_repo_data_page
    \/ get_repo_data_next
    \/ get_data_page
    \/ get_data_return
    \/ get_pr_data_page
    \/ get_pr_data_return
    \/ get_fork_data_page
    \/ get_fork_data_return
    \/ sunset_report
    \/ get_org_data_org
    \/ get_org_data_write
    \/ monitoring_org
    \/ pr_activity_flatten
    \/ repo_activity_flatten
    \/ to_csv
    \/ monitoring_score
    \/ monitoring_write

Spec == Init /\ [][Next]_vars

DriverNext ==
    \/ get_repo_data_page
    \/ get_repo_data_next
    \/ get_fork_data_page
    \/ get_fork_data_return
    \/ sunset_report

DriverSpec == DriverInit /\ [][DriverNext]_vars

-----------------------------------------------------------------------------
(* What the properties speak of *)

PaginatingScripts == PaginatedDrivers \cup SingleRepoScripts \cup {"sunset"}
ItemLoopScripts == PaginatedDrivers \cup {"sunset", "mystery_orgs", "monitoring"}
StatusScripts == {"sunset", "pr_activity"}

WorkItems == 1..Len(org_list)

\* the pagination routine has returned normally for work item k, and what it
\* returned is still in the state
Returned(k) ==
    CASE script \in PaginatedDrivers -> k < idx \/ pc = "done"
      [] script \in SingleRepoScripts -> pc = "done"
      [] script = "sunset" -> k = idx /\ pc = "report"
      [] OTHER -> FALSE

\* the records returned for work item k
Result(k) ==
    IF script = "sunset" THEN repo_info_df
    ELSE SelectSeq(repo_info_df, LAMBDA r : r.item = k)

\* the records of the first p pages served for work item k, page after page
RECURSIVE PagesUpTo(_, _)
PagesUpTo(k, p) ==
    IF p = 0 THEN <<>>
    ELSE PagesUpTo(k, p - 1) \o PageRecs(k, p, served[k][p].n)

Pages(k) == PagesUpTo(k, Len(served[k]))

\* pullRequests(last: 10, before: BEFORE): each answer holds the pull requests
\* just before the cursor, oldest first, so that of the records of an
\* exhausted backward run the record k of page p is, counted from the oldest
\* pull request of the repository, the one at this position
createdAt(r) == Len(Pages(r.item)) - Len(PagesUpTo(r.item, r.page)) + r.k

\* forks(first: 20, after: AFTER): each answer holds the records just after
\* the cursor, in the order of the collection
forward_position(r) == Len(PagesUpTo(r.item, r.page - 1)) + r.k

AllOk(k) == \A p \in 1..Len(served[k]) : served[k][p].kind = "ok"

\* P1..Pn all succeed, P1..Pn-1 report has_more = true and Pn has_more = false
SucceedToExhaustion(k) ==
    /\ served[k] # <<>>
    /\ AllOk(k)
    /\ \A p \in 1..Len(served[k]) : served[k][p].more <=> p < Len(served[k])

FailedPages(k) == {p \in 1..Len(served[k]) : served[k][p].kind # "ok"}

-----------------------------------------------------------------------------
\* C1: when the pages of a work item all succeed, all but the last reporting
\* a further page, the routine returns the records of the pages concatenated
\* in arrival order, and status "OK" where it returns a status.
C1_ConcatenationInOrder ==
    \A k \in WorkItems :
        (script \in PaginatingScripts /\ Returned(k) /\ SucceedToExhaustion(k))
            => /\ Result(k) = Pages(k)
               /\ script \in StatusScripts => status = "OK"

\* get_fork_data has returned pages of 2, 2 and 1 records
C1_Witness ==
    /\ script = "sunset" /\ pc = "report"
    /\ SucceedToExhaustion(idx)
    /\ [p \in 1..Len(served[idx]) |-> served[idx][p].n] = <<2, 2, 1>>
    /\ Len(repo_info_df) = 5

\* C2: when the fetch of page k fails, whatever the failure, the routine
\* returns exactly the records of pages 1..k-1, and status "Error" where it
\* returns a status.
C2_FailedPageAddsNothing ==
    \A k \in WorkItems :
        (script \in PaginatingScripts /\ Returned(k))
            => \A p \in FailedPages(k) :
                /\ Result(k) = PagesUpTo(k, p - 1)
                /\ script \in StatusScripts => status = "Error"

\* the last answer reported a further page and gave back the cursor that the
\* request had sent
NonAdvancing ==
    /\ script \in PaginatingScripts
    /\ lastResp.kind = "ok"
    /\ lastResp.more
    /\ make_query(lastResp.cursor) = lastSent

\* C3: after an answer that reports a further page with the cursor just used,
\* the routine stops with an error: it sends no further request for the item.
C3_NonAdvancingCursorStops ==
    [][NonAdvancing => /\ served' = served
                       /\ script \in StatusScripts => status' = "Error"]_vars

\* C4: get_pr_data with a page cap num_pages >= 1, every fetch succeeding:
\* no more than num_pages requests are sent; when the last page still reports
\* a previous page exactly num_pages were sent, the records of exactly those
\* pages are returned and the status is "OK"; when a page reports no
\* previous page it is the last one requested.
C4_PageCap ==
    (script = "pr_activity" /\ pc = "done" /\ num_pages >= 1 /\ AllOk(1))
        => /\ Len(served[1]) \in 1..num_pages
           /\ \A p \in 1..(Len(served[1]) - 1) : served[1][p].more
           /\ served[1][Len(served[1])].more => Len(served[1]) = num_pages
           /\ repo_info_df = Pages(1)
           /\ status = "OK"

\* get_pr_data has returned at the cap of two pages while a third was on offer
C4_Witness ==
    /\ script = "pr_activity" /\ pc = "done" /\ num_pages = 2
    /\ Len(served[1]) = 2 /\ AllOk(1)
    /\ served[1][1].more /\ served[1][2].more
    /\ Len(repo_info_df) = 4

\* the records work item k has put into repo_info_df
Delivered(k) ==
    LET carries(p) == served[k][p].kind \in {"ok", "partial"}
        RECURSIVE upTo(_)
        upTo(p) == IF p = 0 THEN <<>>
                   ELSE upTo(p - 1) \o (IF carries(p) THEN PageRecs(k, p, served[k][p].n)
                                        ELSE <<>>)
    IN  upTo(Len(served[k]))

RowsOf(k) == SelectSeq(all_rows, LAMBDA row : row.org = k)

\* C5: with work items [A, B, C] and every fetch of B failing, A and C are
\* processed completely and B adds an error report and no record: the records
\* are those of A followed by those of C, as without B.
C5_FailingItemIsolated ==
    (pc = "done" /\ Len(org_list) = 3 /\ served[2] # <<>> /\ FailedPages(2) = DOMAIN served[2])
        => /\ script \in PaginatedDrivers
                => /\ Result(2) = <<>>
                   /\ repo_info_df = Delivered(1) \o Delivered(3)
           /\ script = "sunset"
                => /\ Len(RowsOf(2)) = 1 /\ RowsOf(2)[1].width = 3
                   /\ all_rows = RowsOf(1) \o RowsOf(2) \o RowsOf(3)
                   /\ served[1] # <<>> /\ served[3] # <<>>

\* C6: a failed page fetch is never raised out of a pagination routine as an
\* exception: the routine returns normally.
C6_FailureNeverRaised ==
    (script \in PaginatingScripts /\ \E k \in WorkItems : FailedPages(k) # {})
        => pc # "aborted"

\* C7: in every script that loops over work items a transport failure ends
\* the work item as a response without the expected keys does: the loop goes
\* on to the next work item.
C7_TransportLikeMalformed ==
    (script \in ItemLoopScripts /\ \E k \in WorkItems :
            \E p \in FailedPages(k) : served[k][p].kind = "transport")
        => pc # "aborted"

\* the last answer was a successful page without records that reports a
\* further page
EmptyPageWithMore ==
    /\ script \in PaginatingScripts
    /\ lastResp.kind = "ok" /\ lastResp.n = 0 /\ lastResp.more

\* C8: a successful page with no records and has_more = true does not end
\* the pagination: the loop flag stays set and the routine has not returned
\* (unless pr_activity's page cap is reached), its next request carries the
\* cursor the page returned, and the records of that next page are collected.
C8_EmptyPageContinues ==
    /\ [](EmptyPageWithMore
            => /\ has_next_page
               /\ after_cursor = lastResp.cursor
               /\ pc = "loop" \/ (script = "pr_activity" /\ i > num_pages))
    /\ [][(EmptyPageWithMore /\ served' # served)
            => /\ lastSent' = make_query(lastResp.cursor)
               /\ lastResp'.kind = "ok" => repo_info_df' = repo_info_df \o df_temp(lastResp')]_vars

\* an empty first page reporting a further page, then a page whose records
\* were collected
C8_Witness ==
    /\ script = "inclusivity_check"
    /\ Len(served[1]) = 2
    /\ served[1][1] = [kind |-> "ok", n |-> 0, more |-> TRUE]
    /\ served[1][2] = [kind |-> "ok", n |-> 2, more |-> FALSE]
    /\ Len(repo_info_df) = 2
    /\ lastSent = make_query("c1")

\* C9: when all pages succeed, no request follows a page that reports
\* has_more = false: with page n the first to report it, exactly n requests
\* are sent for the work item.
C9_NoRequestAfterLastPage ==
    \A k \in WorkItems :
        script \in PaginatingScripts
            => \A p \in 1..Len(served[k]) :
                (served[k][p].kind = "ok" /\ ~served[k][p].more) => p = Len(served[k])

\* pages of 2, 2 and 1 records, has_more true, true, false: 5 records from
\* exactly 3 requests
C9_Witness ==
    /\ script = "keyword_by_repo" /\ pc = "done" /\ Len(org_list) = 1
    /\ served[1] = << [kind |-> "ok", n |-> 2, more |-> TRUE],
                      [kind |-> "ok", n |-> 2, more |-> TRUE],
                      [kind |-> "ok", n |-> 1, more |-> FALSE] >>
    /\ Len(repo_info_df) = 5

\* C10: no page is retried: once a fetch has failed for a work item no
\* further request is sent for it, so its requests number at most its
\* successful pages plus one.
C10_NoRetry ==
    \A k \in WorkItems :
        /\ \A p \in FailedPages(k) : p = Len(served[k])
        /\ Len(served[k]) <= Cardinality(DOMAIN served[k] \ FailedPages(k)) + 1

\* the second page of the first org failed and the script is at the next org
C10_Witness ==
    /\ script = "repo_activity" /\ idx = 2 /\ pc = "loop"
    /\ Len(served[1]) = 2 /\ FailedPages(1) = {2}
    /\ Len(served[2]) = 1

\* C11: the first request of every work item carries the null cursor,
\* however the previous work item ended; every later request of the item
\* carries the cursor that the item's preceding response, a successful one,
\* returned (as make_query writes it), so no request carries a cursor of
\* another work item.
C11_CursorPerItem ==
    /\ []((script \in PaginatingScripts /\ Processing)
            => /\ served[Item] = <<>> <=> lastResp = NoResp
               /\ served[Item] # <<>>
                    => Summary(lastResp) = served[Item][Len(served[Item])])
    /\ [][(script \in PaginatingScripts /\ served' # served)
            => /\ served[Item] = <<>>
                    => lastSent' = [quoted |-> FALSE, text |-> "null"]
               /\ served[Item] # <<>>
                    => /\ lastResp.kind = "ok"
                       /\ lastSent' = make_query(lastResp.cursor)]_vars

\* the first org ended in an error after a page that returned a cursor; the
\* second org's second request carried the cursor of that org's first page
C11_Witness ==
    /\ script = "repo_activity" /\ idx = 2
    /\ Len(served[1]) = 2 /\ served[1][1].more /\ FailedPages(1) = {2}
    /\ Len(served[2]) = 2 /\ served[2][1].more
    /\ lastSent = make_query("c2")

\* C12: run to exhaustion with every page succeeding, forward pagination
\* returns the collection in its order and backward pagination (pr_activity)
\* returns the same records in exactly the reverse order.
C12_BackwardIsReverseOfForward ==
    (pc = "done" /\ script \in SingleRepoScripts /\ SucceedToExhaustion(1))
        => LET N == Len(repo_info_df)
           IN  /\ N = Len(Pages(1))
               /\ script = "commits_people"
                    => \A j \in 1..N : forward_position(repo_info_df[j]) = j
               /\ script = "pr_activity"
                    => \A j \in 1..N : createdAt(repo_info_df[j]) = N - j + 1

\* what get_repo_data returns, as a function of the answers h the API gave
\* for each work item: the one frame into which the record list of every
\* answer that carried one was concatenated, org after org
get_repo_data_result(h) ==
    LET RECURSIVE pages(_, _)
        pages(k, p) ==
            IF p = 0 THEN <<>>
            ELSE pages(k, p - 1) \o (IF h[k][p].kind \in {"ok", "partial"}
                                     THEN PageRecs(k, p, h[k][p].n) ELSE <<>>)
        RECURSIVE orgs(_)
        orgs(k) == IF k = 0 THEN <<>> ELSE orgs(k - 1) \o pages(k, Len(h[k]))
    IN  orgs(Len(org_list))

\* the terminal status of work item k when the API answered h
ItemStatus(h, k) ==
    IF \E p \in 1..Len(h[k]) : h[k][p].kind # "ok" THEN "error" ELSE "ok"

\* the answers that end a work item's pagination
LastAnswers ==
    {[kind |-> "ok", n |-> n, more |-> FALSE] : n \in 0..MaxPageLen}
        \cup {Summary(f) : f \in Failures}

\* runs over the same work items in which every item is answered once or
\* twice
OtherRuns ==
    [WorkItems ->
        {<<a>> : a \in LastAnswers}
            \cup {<<[kind |-> "ok", n |-> n, more |-> TRUE], a>> :
                        n \in 0..MaxPageLen, a \in LastAnswers}]

\* C13: after a run of a multi-item driver the records and the terminal
\* status of every work item can be read back from the driver's result: no
\* other run with the same result differs in the status of a work item.
C13_ResultKeyedByItem ==
    (script \in PaginatedDrivers /\ pc = "done")
        => /\ repo_info_df = get_repo_data_result(served)
           /\ \A h \in OtherRuns :
                get_repo_data_result(h) = repo_info_df
                    => \A k \in WorkItems : ItemStatus(h, k) = ItemStatus(served, k)

\* the records of the successfully fetched pages of work item k
OkPages(k) ==
    LET RECURSIVE upTo(_)
        upTo(p) == IF p = 0 THEN <<>>
                   ELSE upTo(p - 1) \o (IF served[k][p].kind = "ok"
                                        THEN PageRecs(k, p, served[k][p].n) ELSE <<>>)
    IN  upTo(Len(served[k]))

\* the successfully fetched pages of the work items 1..k, item after item
RECURSIVE OkPagesOfItems(_)
OkPagesOfItems(k) == IF k = 0 THEN <<>> ELSE OkPagesOfItems(k - 1) \o OkPages(k)

\* C14: the work items are processed one after another in input order: a
\* request is always for the current item, no later item has been asked for
\* yet and the script never goes back to an earlier one; the combined records
\* of a multi-item script are the successfully fetched pages of its items,
\* concatenated in input order.
C14_ItemsInInputOrder ==
    /\ [](script \in ItemLoopScripts
            => \A k \in WorkItems : k > idx => served[k] = <<>>)
    /\ [][(script \in ItemLoopScripts)
            => /\ idx' >= idx
               /\ \A k \in WorkItems : served'[k] # served[k] => k = idx]_vars
    /\ [](script \in PaginatedDrivers
            => repo_info_df = OkPagesOfItems(Len(org_list)))

IsPrefix(a, b) == Len(a) <= Len(b) /\ SubSeq(b, 1, Len(a)) = a

\* C15: every step of a pagination run leaves the records accumulated before
\* it as a prefix of the records accumulated after it, and a step whose fetch
\* failed leaves the accumulated records as they were.
C15_AppendOnly ==
    [][(script \in PaginatingScripts /\ pc = "loop")
        => /\ IsPrefix(repo_info_df, repo_info_df')
           /\ (served' # served /\ lastResp'.kind # "ok")
                => repo_info_df' = repo_info_df]_vars

\* C16: get_fork_data sends at least one request; the status it returns is
\* "Error" exactly when a page fetch of the repo failed and "OK" exactly when
\* all pages up to exhaustion succeeded; with status "Error" num_forks and
\* num_stars are None, whatever earlier pages had supplied.
C16_ForkDataStatus ==
    (script = "sunset" /\ pc = "report")
        => /\ Len(served[idx]) >= 1
           /\ status \in {"OK", "Error"}
           /\ status = "Error" <=> FailedPages(idx) # {}
           /\ status = "OK" <=> SucceedToExhaustion(idx)
           /\ status = "Error" => num_forks = None /\ num_stars = None

\* the first page reported one fork, the second fetch failed
C16_Witness ==
    /\ script = "sunset" /\ pc = "report"
    /\ Len(served[idx]) = 2 /\ FailedPages(idx) = {2}
    /\ Len(repo_info_df) >= 1
    /\ status = "Error" /\ num_forks = None

\* the repos that are to be printed
ToBePrinted(row) ==
    /\ ~row.isPrivate /\ ~row.isFork /\ ~row.isEmpty /\ ~row.isArchived
    /\ row.defaultBranch = "master" \/ row.codeOfConduct_url = "Not Found"

\* C17: inclusivity_check prints a repo exactly when it is not private, not
\* a fork, not empty, not archived, and its default branch is 'master' or its
\* code of conduct is 'Not Found'; the CSV data has a row for every fetched
\* repo, printed or not.
C17_PrintedRepos ==
    (script = "inclusivity_check" /\ pc = "done")
        => /\ \A j \in 1..Len(repo_info_df) :
                ToBePrinted(repo_info_df[j])
                    <=> \E l \in 1..Len(screen) : screen[l][1] = repo_info_df[j].nameWithOwner
           /\ Len(screen) <= Len(repo_info_df)
           /\ csv.written
                => /\ Len(csv.rows) = Len(repo_info_df)
                   /\ \A j \in 1..Len(repo_info_df) :
                        csv.rows[j].nameWithOwner = repo_info_df[j].nameWithOwner

\* of two repos the first, on main and without a code of conduct, was printed
\* and the second, an archived one on master, was not; both are in the CSV
C17_Witness ==
    /\ script = "inclusivity_check" /\ pc = "done" /\ Len(repo_info_df) = 2
    /\ repo_info_df[1].defaultBranch = "main"
    /\ repo_info_df[1].codeOfConduct_url = "Not Found"
    /\ repo_info_df[2].isArchived /\ repo_info_df[2].defaultBranch = "master"
    /\ screen = << <<1, "main", "Not Found">> >>
    /\ csv.written /\ Len(csv.rows) = 2

\* the rows that the step has appended to all_rows
NewRows == SubSeq(all_rows', Len(all_rows) + 1, Len(all_rows'))

\* C18: when get_fork_data has returned status "OK" and get_criticality
\* yields no numeric dependents count (a text that is not numeric, or its
\* failure value), the rows of the repo are written with Status "OK" and with
\* Dependents and Crit Score "Error", and with the fork data they have when
\* the count is numeric (stated for the repos whose forks, if they have any,
\* were fetched).
C18_CriticalityFailureKeepsRepo ==
    [][(script = "sunset" /\ pc = "report" /\ status = "OK"
            /\ (num_forks = 0 \/ repo_info_df # <<>>))
        => \A crit \in {"text", "none"} :
            (all_rows' = all_rows \o repo_rows(crit))
                => /\ Len(NewRows) = Len(repo_rows("numeric"))
                   /\ \A j \in 1..Len(NewRows) :
                        /\ NewRows[j].status = "OK"
                        /\ NewRows[j].dependents = "Error"
                        /\ NewRows[j].score = "Error"
                        /\ NewRows[j].fork = repo_rows("numeric")[j].fork]_vars

\* the forks fetched for repo k that were updated after the threshold
RecentForks(k) == SelectSeq(Pages(k), LAMBDA f : updatedAt(f) > recently_updated)

\* C19: a repo that sunset reports with status "OK" has exactly one row, one
\* without fork fields, when it has no forks or none updated after the
\* threshold, and otherwise exactly one row for each recently updated fork,
\* in the order of the forks, and none for any other fork.
C19_RowsPerRecentFork ==
    script = "sunset"
        => \A k \in WorkItems :
            (RowsOf(k) # <<>> /\ RowsOf(k)[1].status = "OK")
                => IF RowsOf(k)[1].forks = 0 \/ RecentForks(k) = <<>>
                   THEN Len(RowsOf(k)) = 1 /\ RowsOf(k)[1].fork = NoFork
                   ELSE [j \in 1..Len(RowsOf(k)) |-> RowsOf(k)[j].fork] = RecentForks(k)

\* a repo with four forks in two pages, two of them recently updated, has
\* two rows
C19_Witness ==
    /\ script = "sunset" /\ pc = "done" /\ Len(org_list) = 1
    /\ Len(Pages(1)) = 4
    /\ Len(all_rows) = 2
    /\ all_rows[1].status = "OK" /\ all_rows[1].fork.page = 1
    /\ all_rows[2].status = "OK" /\ all_rows[2].fork.page = 2

\* C20: an author entry whose GitHub user is null is counted in
\* fail_person_dict under the commit email of that entry: one commit more
\* and the additions and deletions of its commit, and nothing else changes.
C20_NullUserUnderOwnEmail ==
    [][(script = "commits_people" /\ pc = "first_pass"
            /\ repo_info_df[next_author].user = None)
        => LET y == repo_info_df[next_author]
           IN  /\ pc' # "aborted"
               /\ fail_person_dict' =
                    [fail_person_dict EXCEPT ![y.email] =
                        [commits |-> @.commits + 1,
                         additions |-> @.additions + additions(y.commit),
                         deletions |-> @.deletions + deletions(y.commit)]]]_vars

\* the sum of the 'commits' of the entries of dict under the given keys
RECURSIVE SumCommits(_, _)
SumCommits(dict, under) ==
    IF under = {} THEN 0
    ELSE LET key == CHOOSE k \in under : TRUE
         IN  dict[key].commits + SumCommits(dict, under \ {key})

\* the emails of fail_person_dict that are in no person's email list
Unmatched ==
    {f_key \in Emails :
        \A login \in Logins :
            \A j \in 1..Len(person_dict[login].email) : person_dict[login].email[j] # f_key}

\* C21: create_person_dict conserves the commit counts: during and after the
\* first loop the 'commits' of person_dict and fail_person_dict add up to the
\* number of author entries processed, and after the second loop the
\* 'commits' of person_dict and of the unmatched emails of fail_person_dict
\* add up to the number of author entries.
C21_CommitsConserved ==
    script = "commits_people"
        => /\ pc \in {"first_pass", "merge"}
                => SumCommits(person_dict, Logins) + SumCommits(fail_person_dict, Emails)
                        = next_author - 1
           /\ pc = "merge" => next_author - 1 = Len(repo_info_df)
           /\ pc = "done"
                => SumCommits(person_dict, Logins) + SumCommits(fail_person_dict, Unmatched)
                        = Len(repo_info_df)

\* the complete rows of the orgs 1..k whose response was well formed: the
\* org's fields and those of each of its members
RECURSIVE CompleteRows(_)
CompleteRows(k) ==
    IF k = 0 THEN <<>>
    ELSE CompleteRows(k - 1)
            \o (IF served[k] # <<>> /\ served[k][1].kind = "ok"
                THEN << <<k>> \o PageRecs(k, 1, served[k][1].n) >>
                ELSE <<>>)

\* C22: in mystery_orgs all_rows holds, after the header, exactly one
\* complete row for every org whose response was well formed, in input
\* order, and nothing for an org whose response was malformed, also when it
\* was malformed part-way through the members.
C22_OneCompleteRowPerOrg ==
    script = "mystery_orgs" => all_rows = CompleteRows(Len(org_list))

\* the first org's response broke off after two members and left no row, the
\* second org has its row with two members
C22_Witness ==
    /\ script = "mystery_orgs" /\ pc = "done" /\ Len(org_list) = 2
    /\ served[1] = << [kind |-> "partial", n |-> 2, more |-> FALSE] >>
    /\ served[2] = << [kind |-> "ok", n |-> 2, more |-> FALSE] >>
    /\ Len(all_rows) = 1 /\ Len(all_rows[1]) = 3

\* C23: when all orgs are processed and create_file has opened the output
\* file, get_org_data has written to it every row of all_rows, the header
\* first.
C23_AllRowsWritten ==
    (script = "mystery_orgs" /\ pc = "done" /\ csv.written)
        => csv.rows = <<header_row>> \o all_rows

\* what the lines 1..k of monitoring.txt put into repo_list: a URL line
\* itself, an org the pinned repos of its answer, as far as they were read
RECURSIVE PinnedUpTo(_)
PinnedUpTo(k) ==
    IF k = 0 THEN <<>>
    ELSE PinnedUpTo(k - 1)
            \o (IF org_list[k].http THEN <<org_list[k]>>
                ELSE IF served[k] # <<>> /\ served[k][1].kind \in {"ok", "partial"}
                THEN PageRecs(k, 1, served[k][1].n)
                ELSE <<>>)

\* C24: monitoring builds repo_list in input order: a line starting with
\* 'http' is appended as it is and no request is sent for it, any other line
\* is asked for exactly once and the pinned repo URLs of the answer are
\* appended in the order of the answer; an answer without the pinned items
\* appends nothing and the lines after it are still processed.
C24_RepoListInInputOrder ==
    script = "monitoring"
        => /\ repo_list = PinnedUpTo(idx - 1)
           /\ \A k \in WorkItems :
                /\ org_list[k].http => served[k] = <<>>
                /\ (~org_list[k].http /\ k < idx) => Len(served[k]) = 1
                /\ Len(served[k]) <= 1
                /\ (served[k] # <<>> /\ served[k][1].kind = "nodata") => k < idx

\* the answer for the org of the first line had no pinned items; the URL of
\* the second line is in repo_list
C24_Witness ==
    /\ script = "monitoring" /\ pc = "done" /\ Len(org_list) = 2
    /\ served[1] = << [kind |-> "nodata", n |-> 0, more |-> FALSE] >>
    /\ org_list[2].http
    /\ repo_list = <<org_list[2]>>

\* C25: for every integer num_pages get_pr_data returns records and a status
\* that is "OK" or "Error"; for num_pages of 0 or less it sends no request
\* and returns no records.
C25_AnyPageCapReturns ==
    script = "pr_activity"
        => /\ pc # "aborted"
           /\ pc = "done" => status \in {"OK", "Error"}
           /\ num_pages <= 0 => served[1] = <<>> /\ repo_info_df = <<>>

\* sunset has written the rows of repo k
Reported(k) == k < idx \/ pc = "done"

FlatteningScripts == {"pr_activity", "repo_activity", "monitoring"}

\* every fetch of the run has failed: the first page of pr_activity, the
\* first page of every org of repo_activity, the score of every repo of
\* monitoring
EveryFetchFailed ==
    CASE script = "pr_activity" -> 1 \in FailedPages(1)
      [] script = "repo_activity" ->
            /\ pc \notin {"loop", "aborted"}
            /\ \A k \in WorkItems : 1 \in FailedPages(k)
      [] script = "monitoring" ->
            pc \notin {"loop", "done", "aborted"} /\ csv_row_list = <<>>
      [] OTHER -> FALSE

\* C27: when every fetch has failed and the aggregate is empty, pr_activity,
\* repo_activity and monitoring do not end with an exception in the step
\* between aggregation and writing; they go on to write the CSV file.
C27_EmptyAggregateReachesWrite ==
    (script \in FlatteningScripts /\ EveryFetchFailed)
        => pc # "raised"

=============================================================================
